---------------------------- MODULE Spec2Model ----------------------------
(***************************************************************************)
(* The weather agent team of multi_tool_agent/agent.py: the keyword        *)
(* guardrail, the five tool handlers, the session state they read and      *)
(* write, the module's start-up code that builds the agents, and a turn    *)
(* of the coordinator with its two sub-agents.                             *)
(*                                                                         *)
(* A Python str is a sequence of one-character strings, so that lower(),   *)
(* upper(), capitalize(), replace() and the `in` substring test are        *)
(* computed character by character as Python computes them.               *)
(***************************************************************************)
EXTENDS Integers, Sequences, FiniteSets, TLC

VARIABLES
    pc,                 \* position of the module's start-up code
    greeting_agent,     \* module global: "None" or the agent's name
    farewell_agent,     \* module global: "None" or the agent's name
    weather_agent_team, \* module global: "undefined" or the agent's name
    root_agent,         \* module global: "undefined", "None" or the agent's name
    printed,            \* the lines start-up has printed
    state,              \* the session's state bag: a function from keys to values
    contents,           \* llm_request.contents: the request history
    turn,               \* the turn in progress
    last                \* the last call of a handler or of the guardrail

vars == <<pc, greeting_agent, farewell_agent, weather_agent_team, root_agent,
          printed, state, contents, turn, last>>

-----------------------------------------------------------------------------
(* Python str operations                                                   *)

UpperCase ==
    <<"A", "B", "C", "D", "E", "F", "G", "H", "I", "J", "K", "L", "M",
      "N", "O", "P", "Q", "R", "S", "T", "U", "V", "W", "X", "Y", "Z">>

LowerCase ==
    <<"a", "b", "c", "d", "e", "f", "g", "h", "i", "j", "k", "l", "m",
      "n", "o", "p", "q", "r", "s", "t", "u", "v", "w", "x", "y", "z">>

\* one character of str.lower()
LowerChar(c) ==
    IF \E i \in 1..Len(UpperCase) : UpperCase[i] = c
    THEN LowerCase[CHOOSE i \in 1..Len(UpperCase) : UpperCase[i] = c]
    ELSE c

\* one character of str.upper()
UpperChar(c) ==
    IF \E i \in 1..Len(LowerCase) : LowerCase[i] = c
    THEN UpperCase[CHOOSE i \in 1..Len(LowerCase) : LowerCase[i] = c]
    ELSE c

\* s.lower()
Lower(s) == [i \in 1..Len(s) |-> LowerChar(s[i])]

\* s.upper()
Upper(s) == [i \in 1..Len(s) |-> UpperChar(s[i])]

\* s.capitalize(): the first character upper-cased, the rest lower-cased
Capitalize(s) ==
    [i \in 1..Len(s) |-> IF i = 1 THEN UpperChar(s[i]) ELSE LowerChar(s[i])]

IsNotSpace(c) == c # " "

\* s.replace(" ", ""): only the space character is removed
RemoveSpaces(s) == SelectSeq(s, IsNotSpace)

\* sub in s
Contains(s, sub) ==
    \E i \in 0..(Len(s) - Len(sub)) : SubSeq(s, i + 1, i + Len(sub)) = sub

Digits == <<"0", "1", "2", "3", "4", "5", "6", "7", "8", "9">>

RECURSIVE IntToStr(_)
\* str(n) of a natural number
IntToStr(n) ==
    IF n < 10 THEN <<Digits[n + 1]>>
    ELSE IntToStr(n \div 10) \o <<Digits[(n % 10) + 1]>>

\* f"{num/den:.0f}" of a non-negative quotient: nearest integer, ties to even
FormatFloat0(num, den) ==
    LET q == num \div den
        r == num % den
    IN  IF 2 * r > den \/ (2 * r = den /\ q % 2 = 1)
        THEN IntToStr(q + 1)
        ELSE IntToStr(q)

-----------------------------------------------------------------------------
(* The session's state bag                                                 *)

KEY_UNIT == "user_preference_temperature_unit"
KEY_LAST_CITY == "last_city_checked_stateful"
KEY_GUARDRAIL == "guardrail_block_keyword_triggered"

EmptyState == [k \in {} |-> ""]

\* state.get(key, default)
Get(st, key, default) == IF key \in DOMAIN st THEN st[key] ELSE default

\* state[key] = value
Set(st, key, value) ==
    [k \in DOMAIN st \cup {key} |-> IF k = key THEN value ELSE st[k]]

\* the state the module creates its session with
initial_state == [k \in {KEY_UNIT} |-> "Celsius"]

\* The unit preferences a session is created with.  Only the exact string
\* "Fahrenheit" selects Fahrenheit.
Preferences == {"Celsius", "Fahrenheit", "fahrenheit", "Kelvin"}

\* create_session(state=...): the module's own initial state, the state bags of
\* sessions created with another preference, and a session created with none
InitialStates ==
    {initial_state} \cup {[k \in {KEY_UNIT} |-> p] : p \in Preferences} \cup {EmptyState}

-----------------------------------------------------------------------------
(* What a handler returns                                                  *)

DictSuccess(report) ==
    [type |-> "dict", dict |-> [status |-> "success", report |-> report]]

\* DictError with the message under the key of a success
DictErrorAsReport(error_msg) ==
    [type |-> "dict", dict |-> [status |-> "error", report |-> error_msg]]

DictError(error_msg) ==
    [type |-> "dict", dict |-> [status |-> "error", error_message |-> error_msg]]

StrValue(s) == [type |-> "str", str |-> s]

\* a handler's outcome: the value returned, the state bag afterwards, and the
\* writes to the state bag in order
Outcome(ret, st, writes) == [ret |-> ret, state |-> st, writes |-> writes]

\* Normalize without the replace(" ", ""): spaces are kept
NormalizeKeepSpaces(s) == Lower(s)

\* city.lower().replace(" ", ""), name.lower().replace(" ", "")
Normalize(s) == RemoveSpaces(Lower(s))

\* city_normalized in mock_..._db: an exact match of a key of the table
InTable(key, db) == key \in DOMAIN db

-----------------------------------------------------------------------------
(* say_hello, say_goodbye                                                  *)

S_HelloComma ==
    <<"H", "e", "l", "l", "o", ",", " ">>
S_Bang ==
    <<"!">>
S_HelloThere ==
    <<"H", "e", "l", "l", "o", " ", "t", "h", "e", "r", "e", "!">>
S_Goodbye ==
    <<"G", "o", "o", "d", "b", "y", "e", "!", " ", "H", "a", "v", "e", " ", "a", " ", "g", "r",
      "e", "a", "t", " ", "d", "a", "y", ".">>

\* An optional str argument: None, or a str.
NoneArg == [isNone |-> TRUE, chars |-> <<>>]
StrArg(s) == [isNone |-> FALSE, chars |-> s]

\* Python truth of an Optional[str]: None and "" are false
Truthy(a) == ~a.isNone /\ Len(a.chars) > 0

say_hello(name, st) ==
    IF Truthy(name)
    THEN Outcome(StrValue(S_HelloComma \o name.chars \o S_Bang), st, <<>>)
    ELSE Outcome(StrValue(S_HelloThere), st, <<>>)

say_goodbye(st) == Outcome(StrValue(S_Goodbye), st, <<>>)

-----------------------------------------------------------------------------
(* get_weather_stateful                                                    *)

K_newyork ==
    <<"n", "e", "w", "y", "o", "r", "k">>
K_london ==
    <<"l", "o", "n", "d", "o", "n">>
K_tokyo ==
    <<"t", "o", "k", "y", "o">>
S_sunny ==
    <<"s", "u", "n", "n", "y">>
S_cloudy ==
    <<"c", "l", "o", "u", "d", "y">>
S_light_rain ==
    <<"l", "i", "g", "h", "t", " ", "r", "a", "i", "n">>
S_TheWeatherIn ==
    <<"T", "h", "e", " ", "w", "e", "a", "t", "h", "e", "r", " ", "i", "n", " ">>
S_Is ==
    <<" ", "i", "s", " ">>
S_WithATemperatureOf ==
    <<" ", "w", "i", "t", "h", " ", "a", " ", "t", "e", "m", "p", "e", "r", "a", "t", "u", "r",
      "e", " ", "o", "f", " ">>
S_DegF ==
    <<"°", "F">>
S_DegC ==
    <<"°", "C">>
S_Dot ==
    <<".">>
S_SorryWeather ==
    <<"S", "o", "r", "r", "y", ",", " ", "I", " ", "d", "o", "n", "'", "t", " ", "h", "a", "v",
      "e", " ", "w", "e", "a", "t", "h", "e", "r", " ", "i", "n", "f", "o", "r", "m", "a", "t",
      "i", "o", "n", " ", "f", "o", "r", " ", "'">>
S_QuoteDot ==
    <<"'", ".">>

mock_weather_db ==
    (K_newyork :> [temp_c |-> 25, condition |-> S_sunny]) @@
    (K_london :> [temp_c |-> 15, condition |-> S_cloudy]) @@
    (K_tokyo :> [temp_c |-> 18, condition |-> S_light_rain])

\* FormatTemperature without the + 32 of the Fahrenheit conversion
FormatTemperatureNoOffset(temp_c, preferred_unit) ==
    IF preferred_unit = "Fahrenheit"
    THEN FormatFloat0(temp_c * 9, 5) \o S_DegF
    ELSE FormatFloat0(temp_c, 1) \o S_DegC

\* f"{temp_value:.0f}{temp_unit}" for the preferred unit
\* Fahrenheit: temp_value = (temp_c * 9/5) + 32, a float, = (temp_c*9 + 160)/5
FormatTemperature(temp_c, preferred_unit) ==
    IF preferred_unit = "Fahrenheit"
    THEN FormatFloat0(temp_c * 9 + 160, 5) \o S_DegF
    ELSE FormatFloat0(temp_c, 1) \o S_DegC

\* WeatherWrites storing the lower-cased city instead of the city as given
WeatherWritesLower(city) == <<[key |-> KEY_LAST_CITY, value |-> Lower(city)]>>

\* the state written on a successful lookup
WeatherWrites(city) == <<[key |-> KEY_LAST_CITY, value |-> city]>>

RECURSIVE ApplyWrites(_, _)
ApplyWrites(st, writes) ==
    IF writes = <<>> THEN st
    ELSE ApplyWrites(Set(st, Head(writes).key, Head(writes).value), Tail(writes))

get_weather_stateful(city, st) ==
    LET preferred_unit == Get(st, KEY_UNIT, "Celsius")
        city_normalized == Normalize(city)
    IN  IF InTable(city_normalized, mock_weather_db)
        THEN LET data == mock_weather_db[city_normalized]
                 report == S_TheWeatherIn \o Capitalize(city) \o S_Is \o data.condition
                           \o S_WithATemperatureOf
                           \o FormatTemperature(data.temp_c, preferred_unit) \o S_Dot
             IN  Outcome(DictSuccess(report), ApplyWrites(st, WeatherWrites(city)),
                         WeatherWrites(city))
        ELSE Outcome(DictError(S_SorryWeather \o city \o S_QuoteDot), st, <<>>)

-----------------------------------------------------------------------------
(* get_current_time                                                        *)

K_dallas ==
    <<"d", "a", "l", "l", "a", "s">>
K_denver ==
    <<"d", "e", "n", "v", "e", "r">>
K_sydney ==
    <<"s", "y", "d", "n", "e", "y">>
S_TheCurrentTimeIn ==
    <<"T", "h", "e", " ", "c", "u", "r", "r", "e", "n", "t", " ", "t", "i", "m", "e", " ", "i",
      "n", " ">>
S_SorryTimezone ==
    <<"S", "o", "r", "r", "y", ",", " ", "I", " ", "d", "o", "n", "'", "t", " ", "h", "a", "v",
      "e", " ", "t", "i", "m", "e", "z", "o", "n", "e", " ", "i", "n", "f", "o", "r", "m", "a",
      "t", "i", "o", "n", " ", "f", "o", "r", " ">>
S_Date ==
    <<"2", "0", "2", "5", "-", "0", "1", "-", "1", "5", " ">>
S_MinSec ==
    <<":", "0", "0", ":", "0", "0", " ">>
S_EST ==
    <<"E", "S", "T", "-", "0", "5", "0", "0">>
S_GMT ==
    <<"G", "M", "T", "+", "0", "0", "0", "0">>
S_JST ==
    <<"J", "S", "T", "+", "0", "9", "0", "0">>
S_CST ==
    <<"C", "S", "T", "-", "0", "6", "0", "0">>
S_MST ==
    <<"M", "S", "T", "-", "0", "7", "0", "0">>
S_AEDT ==
    <<"A", "E", "D", "T", "+", "1", "1", "0", "0">>

mock_timezone_db ==
    (K_newyork :> "America/New_York") @@
    (K_london :> "Europe/London") @@
    (K_tokyo :> "Asia/Tokyo") @@
    (K_dallas :> "America/Chicago") @@
    (K_denver :> "America/Denver") @@
    (K_sydney :> "Australia/Sydney")

\* ZoneInfo(tz_identifier) on a winter day: the zone's offset from UTC in hours
\* and the "%Z%z" text
ZoneInfo(tz_identifier) ==
    CASE tz_identifier = "America/New_York" -> [hours |-> -5, name |-> S_EST]
      [] tz_identifier = "Europe/London" -> [hours |-> 0, name |-> S_GMT]
      [] tz_identifier = "Asia/Tokyo" -> [hours |-> 9, name |-> S_JST]
      [] tz_identifier = "America/Chicago" -> [hours |-> -6, name |-> S_CST]
      [] tz_identifier = "America/Denver" -> [hours |-> -7, name |-> S_MST]
      [] tz_identifier = "Australia/Sydney" -> [hours |-> 11, name |-> S_AEDT]

\* The clock: the hour (UTC) of 2025-01-15 at which the handler runs.  Both
\* hours leave every table zone on the same calendar day.
Clock == {10, 12}

\* datetime.datetime.now(tz).strftime("%Y-%m-%d %H:%M:%S %Z%z") at UTC hour `now`
Strftime(now, tz) ==
    LET hour == now + tz.hours
        hh == IF hour < 10 THEN <<"0">> \o IntToStr(hour) ELSE IntToStr(hour)
    IN  S_Date \o hh \o S_MinSec \o tz.name

get_current_time(city, now, st) ==
    LET city_normalized == Normalize(city)
    IN  IF InTable(city_normalized, mock_timezone_db)
        THEN LET tz == ZoneInfo(mock_timezone_db[city_normalized])
                 report == S_TheCurrentTimeIn \o city \o S_Is \o Strftime(now, tz)
             IN  Outcome(DictSuccess(report), st, <<>>)
        ELSE Outcome(DictError(S_SorryTimezone \o city \o S_Dot), st, <<>>)

-----------------------------------------------------------------------------
(* get_student_id                                                          *)

K_frodo ==
    <<"f", "r", "o", "d", "o">>
K_gandalf ==
    <<"g", "a", "n", "d", "a", "l", "f">>
K_saruman ==
    <<"s", "a", "r", "u", "m", "a", "n">>
K_bilbo ==
    <<"b", "i", "l", "b", "o">>
S_TheStudentIdFor ==
    <<"T", "h", "e", " ", "s", "t", "u", "d", "e", "n", "t", " ", "I", "D", " ", "f", "o", "r",
      " ">>
S_SorryStudentId ==
    <<"S", "o", "r", "r", "y", ",", " ", "I", " ", "d", "o", "n", "'", "t", " ", "h", "a", "v",
      "e", " ", "s", "t", "u", "d", "e", "n", "t", "I", "d", " ", "i", "n", "f", "o", "r", "m",
      "a", "t", "i", "o", "n", " ", "f", "o", "r", " ">>

mock_id_db ==
    (K_frodo :> 1001) @@ (K_gandalf :> 2) @@ (K_saruman :> 1) @@ (K_bilbo :> 1000)

\* get_student_id accepting a name that is only the beginning of a key
get_student_id_fuzzy(name, st) ==
    LET name_normalized == Normalize(name)
        matches == {k \in DOMAIN mock_id_db :
                      /\ 0 < Len(name_normalized)
                      /\ Len(name_normalized) <= Len(k)
                      /\ SubSeq(k, 1, Len(name_normalized)) = name_normalized}
    IN  IF matches # {}
        THEN LET id == mock_id_db[CHOOSE k \in matches : TRUE]
                 report == S_TheStudentIdFor \o name \o S_Is \o IntToStr(id) \o S_Dot
             IN  Outcome(DictSuccess(report), st, <<>>)
        ELSE Outcome(DictError(S_SorryStudentId \o name \o S_Dot), st, <<>>)

get_student_id(name, st) ==
    LET name_normalized == Normalize(name)
    IN  IF InTable(name_normalized, mock_id_db)
        THEN LET id == mock_id_db[name_normalized]
                 report == S_TheStudentIdFor \o name \o S_Is \o IntToStr(id) \o S_Dot
             IN  Outcome(DictSuccess(report), st, <<>>)
        ELSE Outcome(DictError(S_SorryStudentId \o name \o S_Dot), st, <<>>)

-----------------------------------------------------------------------------
(* block_keyword_guardrail                                                 *)

keyword_to_block ==
    <<"B", "L", "O", "C", "K">>
S_ICannotProcess ==
    <<"I", " ", "c", "a", "n", "n", "o", "t", " ", "p", "r", "o", "c", "e", "s", "s", " ", "t",
      "h", "i", "s", " ", "r", "e", "q", "u", "e", "s", "t", " ", "b", "e", "c", "a", "u", "s",
      "e", " ", "i", "t", " ", "c", "o", "n", "t", "a", "i", "n", "s", " ", "t", "h", "e", " ",
      "b", "l", "o", "c", "k", "e", "d", " ", "k", "e", "y", "w", "o", "r", "d", " ", "'">>

\* A part of a message: its text is None (a file, a function call, a function
\* response) or a str.
TextPart(s) == [text |-> StrArg(s)]
NonTextPart == [text |-> NoneArg]

\* types.Content
Content(role, parts) == [role |-> role, parts |-> parts]

RECURSIVE LastUserText(_, _)
\* for content in reversed(llm_request.contents), from index i down: the text of
\* the first part of the first message met that has role 'user', has parts, and
\* whose first part's text is true; "" when there is none
LastUserText(cs, i) ==
    IF i = 0 THEN <<>>
    ELSE IF /\ cs[i].role = "user"
            /\ Len(cs[i].parts) > 0
            /\ Truthy(cs[i].parts[1].text)
         THEN cs[i].parts[1].text.chars
         ELSE LastUserText(cs, i - 1)

last_user_message_text(cs) == LastUserText(cs, Len(cs))

\* keyword_to_block in last_user_message_text.upper()
KeywordFound(text) == Contains(Upper(text), keyword_to_block)

\* GuardrailWrites storing the outcome of every check, found or not
GuardrailWritesAlways(found) == <<[key |-> KEY_GUARDRAIL, value |-> found]>>

\* the state written by the guardrail: the flag when the keyword is found,
\* nothing otherwise
GuardrailWrites(found) ==
    IF found THEN <<[key |-> KEY_GUARDRAIL, value |-> TRUE]>> ELSE <<>>

LlmResponse(text) == [type |-> "LlmResponse", text |-> text]
NoneValue == [type |-> "None"]

block_keyword_guardrail(cs, st) ==
    LET found == KeywordFound(last_user_message_text(cs))
        writes == GuardrailWrites(found)
    IN  IF found
        THEN Outcome(LlmResponse(S_ICannotProcess \o keyword_to_block \o S_QuoteDot),
                     ApplyWrites(st, writes), writes)
        ELSE Outcome(NoneValue, ApplyWrites(st, writes), writes)

-----------------------------------------------------------------------------
(* The record of the last call                                             *)

NoCall ==
    [op |-> "none", agent |-> "none", arg |-> NoneArg, now |-> 0, contents |-> <<>>,
     pre |-> EmptyState, ret |-> NoneValue, writes |-> <<>>]

\* a call of `op` for `agent` with argument `arg` (a handler) or request history
\* `cs` (the guardrail) at clock `now` from state bag `st`
Call(op, agent, arg, now, cs, st, out) ==
    [op |-> op, agent |-> agent, arg |-> arg, now |-> now, contents |-> cs, pre |-> st,
     ret |-> out.ret, writes |-> out.writes]

-----------------------------------------------------------------------------
(* Module start-up: the agents are built in order, then the root agent     *)

\* Agent(...) either returns the agent or raises
ConstructionOutcomes == {"built", "raises"}

\* The except clause of a failed construction prints a line that reads
\* <agent>.model.  The variable still holds None, so the read raises
\* AttributeError inside the handler: nothing is printed and the import of the
\* module ends there.
ExceptClause(agent_var, line, next_pc) ==
    IF agent_var = "None"
    THEN [pc |-> "crashed", printed |-> printed]
    ELSE [pc |-> next_pc, printed |-> printed \cup {line}]

CreateGreetingAgent ==
    /\ pc = "greeting"
    /\ \E outcome \in ConstructionOutcomes :
         IF outcome = "built"
         THEN /\ greeting_agent' = "greeting_agent"
              /\ printed' = printed \cup {"Agent 'greeting_agent' created"}
              /\ pc' = "farewell"
         ELSE LET after == ExceptClause(greeting_agent, "Could not create Greeting agent",
                                        "farewell")
              IN  /\ pc' = after.pc
                  /\ printed' = after.printed
                  /\ UNCHANGED greeting_agent
    /\ UNCHANGED <<farewell_agent, weather_agent_team, root_agent, state, contents,
                   turn, last>>

CreateFarewellAgent ==
    /\ pc = "farewell"
    /\ \E outcome \in ConstructionOutcomes :
         IF outcome = "built"
         THEN /\ farewell_agent' = "farewell_agent"
              /\ printed' = printed \cup {"Agent 'farewell_agent' created"}
              /\ pc' = "assemble"
         ELSE LET after == ExceptClause(farewell_agent, "Could not create Farewell agent",
                                        "assemble")
              IN  /\ pc' = after.pc
                  /\ printed' = after.printed
                  /\ UNCHANGED farewell_agent
    /\ UNCHANGED <<greeting_agent, weather_agent_team, root_agent, state, contents,
                   turn, last>>

\* the lines printed when the root agent cannot be created
MissingLines ==
    {"Cannot create root agent"}
    \cup (IF greeting_agent = "None" THEN {" - Greeting Agent is missing."} ELSE {})
    \cup (IF farewell_agent = "None" THEN {" - Farewell Agent is missing."} ELSE {})

\* root_agent = None, then the root agent is built when both sub-agents exist
AssembleRootAgent ==
    /\ pc = "assemble"
    /\ root_agent' = "None"
    /\ IF greeting_agent # "None" /\ farewell_agent # "None"
       THEN /\ weather_agent_team' = "weather_agent"
            /\ printed' = printed \cup {"Root Agent 'weather_agent' created"}
       ELSE /\ printed' = printed \cup MissingLines
            /\ UNCHANGED weather_agent_team
    /\ pc' = "resolve"
    /\ UNCHANGED <<greeting_agent, farewell_agent, state, contents, turn, last>>

\* root_agent = globals()[root_agent_var_name]
ResolveRootAgent ==
    /\ pc = "resolve"
    /\ root_agent' = IF weather_agent_team # "undefined" THEN weather_agent_team
                     ELSE root_agent
    /\ pc' = "ready"
    /\ UNCHANGED <<greeting_agent, farewell_agent, weather_agent_team, printed, state,
                   contents, turn, last>>

-----------------------------------------------------------------------------
(* The agents as they are built                                            *)

\* tools=[...]
AgentTools(agent) ==
    CASE agent = "weather_agent" ->
             {"get_weather_stateful", "get_current_time", "get_student_id"}
      [] agent = "greeting_agent" -> {"say_hello"}
      [] agent = "farewell_agent" -> {"say_goodbye"}

\* sub_agents=[...]
SubAgents(agent) ==
    IF agent = "weather_agent" THEN {greeting_agent, farewell_agent} ELSE {}

\* before_model_callback=...: only the root agent is given one
BeforeModelCallback(agent) ==
    IF agent = "weather_agent" THEN "block_keyword_guardrail" ELSE "None"

-----------------------------------------------------------------------------
(* Inputs                                                                  *)

C_New_York ==
    <<"N", "e", "w", " ", "Y", "o", "r", "k">>
C_NEW_YORK ==
    <<"N", "E", "W", " ", "Y", "O", "R", "K">>
C_new_tab_york ==
    <<"n", "e", "w", "\t", "y", "o", "r", "k">>
C_New ==
    <<"N", "e", "w">>
C_London ==
    <<"L", "o", "n", "d", "o", "n">>
C_LONDON_spaced ==
    <<" ", "L", "O", "N", " ", "D", "O", "N", " ">>
C_lond ==
    <<"l", "o", "n", "d">>
C_londonuk ==
    <<"l", "o", "n", "d", "o", "n", " ", "u", "k">>
C_Tokyo ==
    <<"T", "o", "k", "y", "o">>
C_tOKYO ==
    <<"t", "O", "K", "Y", "O">>
C_Paris ==
    <<"P", "a", "r", "i", "s">>
C_Dallas ==
    <<"D", "a", "l", "l", "a", "s">>
C_SYDNEY ==
    <<"S", "Y", "D", " ", "N", "E", "Y">>
C_space ==
    <<" ">>
N_Frodo ==
    <<"F", "r", "o", "d", "o">>
N_GANDALF ==
    <<"G", "A", "N", " ", "D", "A", "L", "F">>
N_Bilbo_Baggins ==
    <<"B", "i", "l", "b", "o", " ", "B", "a", "g", "g", "i", "n", "s">>
N_Sam ==
    <<"S", "a", "m">>
N_Fro ==
    <<"F", "r", "o">>
N_Bob ==
    <<"B", "o", "b">>

\* city arguments: table keys in several spellings, near misses, and misses
Cities ==
    {C_New_York, K_newyork, C_NEW_YORK, C_new_tab_york, C_New, C_London, K_london,
     C_LONDON_spaced, C_lond, C_londonuk, C_Tokyo, C_tOKYO, C_Paris, C_Dallas, K_denver,
     C_SYDNEY, C_space, <<>>}

\* name arguments of get_student_id
Names == {N_Frodo, K_frodo, N_GANDALF, K_saruman, K_bilbo, N_Bilbo_Baggins, N_Sam, N_Fro,
     <<>>}

\* name arguments of say_hello: absent, empty, or a name
HelloNames == {NoneArg, StrArg(<<>>), StrArg(N_Bob), StrArg(N_Frodo)}

AllTools ==
    {"get_weather_stateful", "get_current_time", "get_student_id", "say_hello",
     "say_goodbye"}

\* the arguments a handler is called with
ToolArgs(tool) ==
    CASE tool \in {"get_weather_stateful", "get_current_time"} -> {StrArg(c) : c \in Cities}
      [] tool = "get_student_id" -> {StrArg(n) : n \in Names}
      [] tool = "say_hello" -> HelloNames
      [] tool = "say_goodbye" -> {NoneArg}

\* the arguments the model of a turn calls a handler with: a few of ToolArgs
TurnArgs(tool) ==
    CASE tool = "get_weather_stateful" -> {StrArg(C_London), StrArg(C_Paris)}
      [] tool = "get_current_time" -> {StrArg(C_Tokyo)}
      [] tool = "get_student_id" -> {StrArg(N_Frodo)}
      [] tool = "say_hello" -> {NoneArg, StrArg(N_Bob)}
      [] tool = "say_goodbye" -> {NoneArg}

\* the clock values a call of `tool` can see: only get_current_time reads it
ToolClock(tool) == IF tool = "get_current_time" THEN Clock ELSE {0}

\* the handler `tool` applied
RunTool(tool, arg, now, st) ==
    CASE tool = "get_weather_stateful" -> get_weather_stateful(arg.chars, st)
      [] tool = "get_current_time" -> get_current_time(arg.chars, now, st)
      [] tool = "get_student_id" -> get_student_id(arg.chars, st)
      [] tool = "say_hello" -> say_hello(arg, st)
      [] tool = "say_goodbye" -> say_goodbye(st)

T_BLOCK ==
    <<"B", "L", "O", "C", "K">>
T_block ==
    <<"p", "l", "e", "a", "s", "e", " ", "b", "l", "o", "c", "k", " ", "t", "h", "i", "s">>
T_mixed ==
    <<"u", "n", "B", "l", "O", "c", "K", "e", "d">>
T_near ==
    <<"b", " ", "l", "o", "c", "k", " ", "t", "h", "e", " ", "b", "l", "o", " ", "c", "k">>
T_hi ==
    <<"h", "i">>
T_answer ==
    <<"D", "o", "n", "e", ".">>

\* messages of a request history: user messages with and without the keyword,
\* with empty text, without parts, with a first part that is not text, and a
\* model message that holds the keyword
UserNoParts == Content("user", <<>>)
UserNonText == Content("user", <<NonTextPart>>)
FunctionCall == Content("model", <<NonTextPart>>)
FunctionResponse == Content("user", <<NonTextPart>>)

GuardMessages ==
    {Content("user", <<TextPart(t)>>) : t \in {T_BLOCK, T_block, T_mixed, T_near, T_hi, <<>>}}
    \cup {UserNoParts, UserNonText, Content("user", <<NonTextPart, TextPart(T_BLOCK)>>),
          Content("model", <<TextPart(T_BLOCK)>>)}

\* the user messages that open a turn
TurnMessages ==
    {Content("user", <<TextPart(T_mixed)>>), Content("user", <<TextPart(T_hi)>>), UserNoParts}

-----------------------------------------------------------------------------
(* Bounds                                                                  *)

MaxContents == 3    \* messages of a request history given to the guardrail
MaxTurns == 2       \* turns of a session
MaxToolCalls == 2   \* handler calls within a turn

-----------------------------------------------------------------------------
(* A turn of the session: the root agent's callback runs before each of    *)
(* its model calls; the model answers, calls one of the agent's tools, or  *)
(* transfers to a sub-agent.                                               *)

Idle == [phase |-> "idle", agent |-> "none", handlers |-> 0, models |-> {},
         guarded |-> {}, n |-> 0, message |-> UserNoParts]

Usable(agent) == agent \notin {"None", "undefined"}

UserMessage ==
    /\ pc = "ready"
    /\ Usable(root_agent)
    /\ turn.phase = "idle"
    /\ turn.n < MaxTurns
    /\ \E m \in TurnMessages :
         /\ contents' = Append(contents, m)
         /\ turn' = [phase |-> "before_model", agent |-> root_agent, handlers |-> 0,
                     models |-> {}, guarded |-> {}, n |-> turn.n + 1, message |-> m]
    /\ UNCHANGED <<pc, greeting_agent, farewell_agent, weather_agent_team, root_agent,
                   printed, state, last>>

\* before the agent's model is called: the agent's before_model_callback, if any
BeforeModel ==
    /\ turn.phase = "before_model"
    /\ IF BeforeModelCallback(turn.agent) = "block_keyword_guardrail"
       THEN LET out == block_keyword_guardrail(contents, state)
            IN  /\ state' = out.state
                /\ last' = Call("block_keyword_guardrail", turn.agent, NoneArg, 0, contents,
                                 state, out)
                /\ IF out.ret.type = "LlmResponse"
                   THEN /\ contents' = Append(contents,
                                              Content("model", <<TextPart(out.ret.text)>>))
                        /\ turn' = [turn EXCEPT !.phase = "idle",
                                                !.guarded = @ \cup {turn.agent}]
                   ELSE /\ turn' = [turn EXCEPT !.phase = "model",
                                                !.guarded = @ \cup {turn.agent},
                                                !.models = @ \cup {turn.agent}]
                        /\ UNCHANGED contents
       ELSE /\ turn' = [turn EXCEPT !.phase = "model", !.models = @ \cup {turn.agent}]
            /\ UNCHANGED <<state, last, contents>>
    /\ UNCHANGED <<pc, greeting_agent, farewell_agent, weather_agent_team, root_agent,
                   printed>>

\* the model asks for one of the agent's tools: the handler runs, and its result
\* goes back to the model as a message of role 'user' without text
ModelCallsTool ==
    /\ turn.phase = "model"
    /\ turn.handlers < MaxToolCalls
    /\ \E tool \in AgentTools(turn.agent) :
         \E arg \in TurnArgs(tool) :
           \E now \in ToolClock(tool) :
             LET out == RunTool(tool, arg, now, state)
             IN  /\ state' = out.state
                 /\ last' = Call(tool, turn.agent, arg, now, <<>>, state, out)
    /\ contents' = contents \o <<FunctionCall, FunctionResponse>>
    /\ turn' = [turn EXCEPT !.phase = "before_model", !.handlers = @ + 1]
    /\ UNCHANGED <<pc, greeting_agent, farewell_agent, weather_agent_team, root_agent,
                   printed>>

\* the model delegates to one of the agent's sub-agents
ModelTransfers ==
    /\ turn.phase = "model"
    /\ \E sub \in SubAgents(turn.agent) :
         turn' = [turn EXCEPT !.phase = "before_model", !.agent = sub]
    /\ UNCHANGED <<pc, greeting_agent, farewell_agent, weather_agent_team, root_agent,
                   printed, state, contents, last>>

\* the model answers: the turn ends
ModelAnswers ==
    /\ turn.phase = "model"
    /\ contents' = Append(contents, Content("model", <<TextPart(T_answer)>>))
    /\ turn' = [turn EXCEPT !.phase = "idle"]
    /\ UNCHANGED <<pc, greeting_agent, farewell_agent, weather_agent_team, root_agent,
                   printed, state, last>>

-----------------------------------------------------------------------------
(* The program: start-up, then turns                                       *)

Init ==
    /\ pc = "greeting"
    /\ greeting_agent = "None"
    /\ farewell_agent = "None"
    /\ weather_agent_team = "undefined"
    /\ root_agent = "undefined"
    /\ printed = {}
    /\ state \in InitialStates
    /\ contents = <<>>
    /\ turn = Idle
    /\ last = NoCall

Next ==
    \/ CreateGreetingAgent
    \/ CreateFarewellAgent
    \/ AssembleRootAgent
    \/ ResolveRootAgent
    \/ UserMessage
    \/ BeforeModel
    \/ ModelCallsTool
    \/ ModelTransfers
    \/ ModelAnswers

Spec == Init /\ [][Next]_vars

-----------------------------------------------------------------------------
(* The handlers called directly, on every argument                         *)

\* the module imported without a failure
Started ==
    /\ pc = "ready"
    /\ greeting_agent = "greeting_agent"
    /\ farewell_agent = "farewell_agent"
    /\ weather_agent_team = "weather_agent"
    /\ root_agent = "weather_agent"
    /\ printed = {"Agent 'greeting_agent' created", "Agent 'farewell_agent' created",
                  "Root Agent 'weather_agent' created"}
    /\ turn = Idle
    /\ last = NoCall

InitTools ==
    /\ Started
    /\ state \in InitialStates
    /\ contents = <<>>

CallTool ==
    /\ \E tool \in AllTools :
         \E arg \in ToolArgs(tool) :
           \E now \in ToolClock(tool) :
             LET out == RunTool(tool, arg, now, state)
             IN  /\ state' = out.state
                 /\ last' = Call(tool, "none", arg, now, <<>>, state, out)
    /\ UNCHANGED <<pc, greeting_agent, farewell_agent, weather_agent_team, root_agent,
                   printed, contents, turn>>

NextTools == CallTool

SpecTools == InitTools /\ [][NextTools]_vars

-----------------------------------------------------------------------------
(* The guardrail called directly, on every request history                 *)

InitGuard ==
    /\ Started
    /\ state = initial_state
    /\ contents = <<>>

\* the request history grows by a message
AppendContent ==
    /\ Len(contents) < MaxContents
    /\ \E m \in GuardMessages : contents' = Append(contents, m)
    /\ UNCHANGED <<pc, greeting_agent, farewell_agent, weather_agent_team, root_agent,
                   printed, state, turn, last>>

\* a model call of the root agent is pending: its callback runs
CallGuardrail ==
    /\ LET out == block_keyword_guardrail(contents, state)
       IN  /\ state' = out.state
           /\ last' = Call("block_keyword_guardrail", "weather_agent", NoneArg, 0, contents,
                        state, out)
    /\ UNCHANGED <<pc, greeting_agent, farewell_agent, weather_agent_team, root_agent,
                   printed, contents, turn>>

NextGuard == AppendContent \/ CallGuardrail

SpecGuard == InitGuard /\ [][NextGuard]_vars

-----------------------------------------------------------------------------
(* Properties of the guardrail                                             *)

block_lowercase ==
    <<"b", "l", "o", "c", "k">>

RECURSIVE LatestUser(_, _)
\* the index of the most recent message of role 'user' at or below i, 0 if none
LatestUser(cs, i) ==
    IF i = 0 THEN 0
    ELSE IF cs[i].role = "user" THEN i ELSE LatestUser(cs, i - 1)

\* the text of a message: the text of its first part, "" when it has no parts
\* or the part carries no text
MessageText(m) ==
    IF Len(m.parts) = 0 \/ m.parts[1].text.isNone THEN <<>> ELSE m.parts[1].text.chars

\* the text of the most recent user message of a history, "" when there is none
LatestUserText(cs) ==
    IF LatestUser(cs, Len(cs)) = 0 THEN <<>> ELSE MessageText(cs[LatestUser(cs, Len(cs))])

\* the text contains "block" in some letter case
HasKeyword(text) == Contains(Lower(text), block_lowercase)

GuardrailCalled == last.op = "block_keyword_guardrail"

Blocked == last.ret.type = "LlmResponse"

FlagWrite == <<[key |-> KEY_GUARDRAIL, value |-> TRUE]>>

\* C1: every call of block_keyword_guardrail whose latest user message holds
\* "block" in any letter case returns a substitute response and writes the flag
\* guardrail_block_keyword_triggered = True exactly once; every call whose
\* latest user message does not hold it returns None and writes nothing.
C1_GuardrailDecision ==
    GuardrailCalled =>
        IF HasKeyword(LatestUserText(last.contents))
        THEN /\ Blocked
             /\ last.writes = FlagWrite
             /\ KEY_GUARDRAIL \in DOMAIN state /\ state[KEY_GUARDRAIL] = TRUE
        ELSE /\ last.ret.type = "None"
             /\ last.writes = <<>>
             /\ state = last.pre

\* C2: the decision depends on the most recent user message alone: the call
\* decides as it would on a history holding only that message, so an earlier
\* user message with the keyword never causes a block.
C2_OnlyLatestUserMessage ==
    GuardrailCalled =>
        LET i == LatestUser(last.contents, Len(last.contents))
            alone == IF i = 0 THEN <<>> ELSE <<last.contents[i]>>
        IN  /\ last.ret = block_keyword_guardrail(alone, last.pre).ret
            /\ Blocked => HasKeyword(LatestUserText(last.contents))

-----------------------------------------------------------------------------
(* Properties of the tool handlers                                         *)

LookupTools == {"get_weather_stateful", "get_current_time", "get_student_id"}

\* the result is a mapping of status "success" with a report and nothing else
IsSuccess(ret) ==
    /\ ret.type = "dict"
    /\ DOMAIN ret.dict = {"status", "report"}
    /\ ret.dict.status = "success"

\* the result is a mapping of status "error" with an error_message and nothing else
IsError(ret) ==
    /\ ret.type = "dict"
    /\ DOMAIN ret.dict = {"status", "error_message"}
    /\ ret.dict.status = "error"

\* the three spellings of New York
NewYorkSpellings == {C_New_York, K_newyork, C_NEW_YORK}

LookupOfNewYork ==
    /\ last.op \in {"get_weather_stateful", "get_current_time"}
    /\ last.arg.chars \in NewYorkSpellings

\* C3 as stated: a lookup of any spelling of New York returns what the lookup of
\* each other spelling returns from the same state: same status, same report.
C3_SpellingsIdentical ==
    LookupOfNewYork =>
        \A c \in NewYorkSpellings :
            RunTool(last.op, StrArg(c), last.now, last.pre).ret = last.ret

\* the text of a report before the city and the city as the report shows it
ReportHead(tool) ==
    IF tool = "get_weather_stateful" THEN S_TheWeatherIn ELSE S_TheCurrentTimeIn

ShownCity(tool, city) ==
    IF tool = "get_weather_stateful" THEN Capitalize(city) ELSE city

\* the report is the head, the city as shown, and `rest`
ReportIs(tool, city, report, rest) == report = ReportHead(tool) \o ShownCity(tool, city) \o rest

\* what follows the city in the report
ReportRest(tool, city, report) ==
    SubSeq(report, Len(ReportHead(tool)) + Len(city) + 1, Len(report))

\* C3 amended: a lookup of any spelling of New York succeeds, and the lookup of
\* each other spelling from the same state succeeds with a report that differs
\* only in the city it shows: the city as typed (get_current_time) or the typed
\* city capitalized (get_weather_stateful).
C3_SpellingsSameData ==
    LookupOfNewYork =>
        /\ IsSuccess(last.ret)
        /\ \A c \in NewYorkSpellings :
             LET other == RunTool(last.op, StrArg(c), last.now, last.pre).ret
                 rest == ReportRest(last.op, last.arg.chars, last.ret.dict.report)
             IN  /\ IsSuccess(other)
                 /\ ReportIs(last.op, last.arg.chars, last.ret.dict.report, rest)
                 /\ ReportIs(last.op, c, other.dict.report, rest)

C3_Witness ==
    /\ last.op = "get_weather_stateful"
    /\ last.arg.chars = C_NEW_YORK
    /\ IsSuccess(last.ret)
    /\ RunTool(last.op, StrArg(K_newyork), last.now, last.pre).ret # last.ret

\* a city argument is a spelling of a key: the key in any letter case, with
\* spaces anywhere
SpellingOf(city, key) == RemoveSpaces(Lower(city)) = key

\* the weather table of the specification: condition, Celsius temperature
WeatherTable ==
    {[key |-> K_newyork, condition |-> S_sunny, celsius |-> 25],
     [key |-> K_london, condition |-> S_cloudy, celsius |-> 15],
     [key |-> K_tokyo, condition |-> S_light_rain, celsius |-> 18]}

\* C * 9/5 + 32 to the nearest degree
FahrenheitOf(celsius) == (2 * (celsius * 9 + 160) + 5) \div 10

\* the temperature text the report must show for a row and a preference
ExpectedTemperature(row, unit) ==
    IF unit = "Fahrenheit"
    THEN IntToStr(FahrenheitOf(row.celsius)) \o S_DegF
    ELSE IntToStr(row.celsius) \o S_DegC

\* C4: for a city that is a spelling of a supported key, get_weather_stateful
\* returns success with a report holding the table's condition and the
\* temperature: C*9/5+32 in degrees F when the preference is exactly
\* "Fahrenheit", the Celsius value in degrees C for any other preference or none.
C4_WeatherReport ==
    last.op = "get_weather_stateful" =>
        \A row \in WeatherTable :
            SpellingOf(last.arg.chars, row.key) =>
                LET unit == IF KEY_UNIT \in DOMAIN last.pre THEN last.pre[KEY_UNIT]
                            ELSE "absent"
                IN  /\ IsSuccess(last.ret)
                    /\ Contains(last.ret.dict.report, S_Is \o row.condition)
                    /\ Contains(last.ret.dict.report,
                                S_WithATemperatureOf \o ExpectedTemperature(row, unit)
                                \o S_Dot)

C4_Witness ==
    /\ last.op = "get_weather_stateful"
    /\ SpellingOf(last.arg.chars, K_tokyo)
    /\ KEY_UNIT \in DOMAIN last.pre /\ last.pre[KEY_UNIT] = "Fahrenheit"
    /\ IsSuccess(last.ret)

\* C5 as stated: every handler returns a mapping with status "success" and a
\* report, or status "error" and an error_message.
C5_EveryHandlerReturnsMapping ==
    last.op \in AllTools => (IsSuccess(last.ret) \/ IsError(last.ret))

\* C5 amended: the three lookup handlers return a mapping with status
\* "success" and only a report, or status "error" and only an error_message;
\* say_hello and say_goodbye return a bare string, not a mapping.
C5_LookupsReturnMapping ==
    /\ last.op \in LookupTools => (IsSuccess(last.ret) \/ IsError(last.ret))
    /\ last.op \in {"say_hello", "say_goodbye"} => last.ret.type = "str"

C5_Witness == last.op = "get_current_time" /\ IsError(last.ret)

\* C6 as stated: a weather lookup writes the queried city under last_city_checked
\* and changes no other key.
C6_WritesLastCityChecked ==
    last.op = "get_weather_stateful" =>
        /\ "last_city_checked" \in DOMAIN state
        /\ state["last_city_checked"] = last.arg.chars
        /\ \A k \in DOMAIN last.pre \ {"last_city_checked"} :
             k \in DOMAIN state /\ state[k] = last.pre[k]

\* C6 amended: a successful weather lookup writes the city, as given, under
\* last_city_checked_stateful and changes no other key; a lookup that fails
\* changes nothing.
C6_WritesLastCityCheckedStateful ==
    last.op = "get_weather_stateful" =>
        IF IsSuccess(last.ret)
        THEN /\ DOMAIN state = DOMAIN last.pre \cup {KEY_LAST_CITY}
             /\ state[KEY_LAST_CITY] = last.arg.chars
             /\ \A k \in DOMAIN last.pre \ {KEY_LAST_CITY} : state[k] = last.pre[k]
        ELSE state = last.pre

C6_Witness ==
    /\ last.op = "get_weather_stateful"
    /\ IsSuccess(last.ret)
    /\ last.arg.chars = C_LONDON_spaced
    /\ KEY_LAST_CITY \in DOMAIN last.pre
    /\ last.pre[KEY_LAST_CITY] # last.arg.chars

IsNotWhitespace(c) == c \notin {" ", "\t"}

\* lower-cased, whitespace removed
NormalForm(s) == SelectSeq(Lower(s), IsNotWhitespace)

\* the keys of a lookup handler's table
TableKeys(tool) ==
    CASE tool = "get_weather_stateful" -> {K_newyork, K_london, K_tokyo}
      [] tool = "get_current_time" ->
             {K_newyork, K_london, K_tokyo, K_dallas, K_denver, K_sydney}
      [] tool = "get_student_id" -> {K_frodo, K_gandalf, K_saruman, K_bilbo}

\* C7: a lookup handler given an input whose normal form is not a key of its
\* table returns an error whose message holds the input as given; it never
\* returns success on a partial match.
C7_MissIsError ==
    (last.op \in LookupTools /\ NormalForm(last.arg.chars) \notin TableKeys(last.op)) =>
        /\ IsError(last.ret)
        /\ Contains(last.ret.dict.error_message, last.arg.chars)

C7_Witness ==
    /\ last.op = "get_student_id"
    /\ last.arg.chars = N_Fro
    /\ IsError(last.ret)

-----------------------------------------------------------------------------
(* Properties of start-up and of a turn                                    *)

StartupEnded == pc \in {"ready", "crashed"}

\* start-up printed a line that names the agent
NamedInDiagnostic(agent) ==
    IF agent = "greeting_agent"
    THEN printed \cap {"Could not create Greeting agent", " - Greeting Agent is missing."} # {}
    ELSE printed \cap {"Could not create Farewell agent", " - Farewell Agent is missing."} # {}

\* the construction of the agent was tried and raised
GreetingFailed == StartupEnded /\ greeting_agent = "None"
FarewellFailed ==
    StartupEnded /\ farewell_agent = "None" /\ (pc = "ready" \/ greeting_agent # "None")

\* C8: when start-up has ended and the greeting agent or the farewell agent
\* failed to construct, root_agent is no usable agent and start-up has printed
\* a diagnostic that names the agent that failed.
C8_FailedDependencyReported ==
    /\ (GreetingFailed \/ FarewellFailed) => ~Usable(root_agent)
    /\ GreetingFailed => NamedInDiagnostic("greeting_agent")
    /\ FarewellFailed => NamedInDiagnostic("farewell_agent")

\* the user message that opened the turn holds the keyword
KeywordTurn == turn.n > 0 /\ HasKeyword(MessageText(turn.message))

\* C9: in every turn the guardrail check has run for each agent whose model
\* call proceeds; in a turn whose user message holds the keyword no model call
\* proceeds and no handler runs; in any turn at most one handler runs.
C9_GuardrailBeforeEveryModelCall ==
    /\ turn.models \subseteq turn.guarded
    /\ KeywordTurn => (turn.models = {} /\ turn.handlers = 0)
    /\ turn.handlers <= 1

FlagSet == KEY_GUARDRAIL \in DOMAIN state /\ state[KEY_GUARDRAIL] = TRUE

\* C10: once guardrail_block_keyword_triggered is True it stays True: no later
\* guardrail check and no handler call resets or removes it.
C10_FlagMonotonic == [][FlagSet => FlagSet']_vars

\* the flag is set, and later a check of a message without the keyword has let
\* the model call proceed and a handler has run
C10_Witness ==
    /\ FlagSet
    /\ last.op = "get_weather_stateful"
    /\ IsSuccess(last.ret)
    /\ KEY_GUARDRAIL \in DOMAIN last.pre

====
